---- MODULE Spec2Model ----
(***************************************************************************)
(* PixelMatch: the face vector database (backend/models/vector_db.py,      *)
(* class FaceVectorDB), the staged selfie search and the grouping of its   *)
(* matches (backend/services/guest_service.py, GuestService), and the      *)
(* search sessions (backend/services/ai_search_service.py).                *)
(*                                                                         *)
(* Numbers.  Embeddings are short vectors of integers.  A normalised       *)
(* embedding is held in fixed point: the value x stands for x / Unit.      *)
(* Similarities, distances and thresholds are in the same unit, so the     *)
(* code's 0.55 is 550, 0.42 is 420, 0.10 is 100 and 0.30 is 300.           *)
(***************************************************************************)
EXTENDS Integers, Sequences, FiniteSets, TLC

VARIABLES index, metadata, tieOrder, last, issued, disk, stable,
          pc, query, max_results, primary_threshold,
          matches_stage1, all_matches, nsearch, stage2_threshold, photo_matches,
          sessions, now, got, handed,
          loop, writer, reader, snapshots

(* the database: self.index, self.metadata, the two files of persist_dir   *)
(* (disk); tieOrder is the order in which this build of faiss reports      *)
(* equal scores; last is the last call and what it returned; issued is the *)
(* set of ids insertions have returned so far; stable is the set of        *)
(* database states a load may find: the last state saved completely, and   *)
(* the state of a save that was interrupted                                *)
dbvars == <<index, metadata, tieOrder, last, issued, disk, stable>>
(* the locals of one search_photos_by_selfie request *)
reqvars == <<pc, query, max_results, primary_threshold,
             matches_stage1, all_matches, nsearch, stage2_threshold, photo_matches>>
(* _sessions, the clock, the last call of the session methods and what it  *)
(* returned, and the (id, embedding, time) of every create_session         *)
sessvars == <<sessions, now, got, handed>>
(* the event loop and the two handlers it runs *)
concvars == <<loop, writer, reader, snapshots>>
vars == <<index, metadata, tieOrder, last, issued, disk, stable,
          pc, query, max_results, primary_threshold,
          matches_stage1, all_matches, nsearch, stage2_threshold, photo_matches,
          sessions, now, got, handed,
          loop, writer, reader, snapshots>>

(***************************************************************************)
(* Bounds of the model.                                                    *)
(*   MaxFaces      cap on len(self.metadata) under Spec                    *)
(*   MaxBatch      longest batch given to add_faces_batch                  *)
(*   IvfThreshold  stands for the 1000 of vector_db.py:204 (new_size >     *)
(*                 1000 upgrades a flat index to IVF), scaled down so that *)
(*                 the upgrade happens within MaxFaces                     *)
(*   nlist, nprobe stand for self.nlist = 100 and self.nprobe = 10         *)
(*                 (vector_db.py:44-45), scaled down with IvfThreshold     *)
(*   MaxLoaded     most copies of one face in a database under SearchSpec  *)
(*   MaxHits       longest list of matches given to the grouping under     *)
(*                 GroupSpec                                               *)
(*   MaxSessions   number of create_session calls under SessionSpec        *)
(*   MaxTime       last minute of the clock under SessionSpec              *)
(*   MaxPersisted  under PersistSpec a call is made only while the index   *)
(*                 and the metadata hold fewer entries than this           *)
(*   MaxQueries    most entries of all chat histories under QuerySpec      *)
(***************************************************************************)
MaxFaces == 5
MaxBatch == 3
IvfThreshold == 3
nlist == 2
nprobe == 1
MaxLoaded == 9
MaxHits == 3
MaxSessions == 2
MaxTime == 47
MaxPersisted == 3
MaxQueries == 2

(* Program constants. *)
Unit == 1000
MAX_RESULTS == 100
SIMILARITY_THRESHOLD == 550
ExpandFloor == 420
ExpandDelta == 100
fallback_threshold == 300
SufficientMatches == 8
FLT_MAX == 100000000
use_ivf == TRUE
SESSION_TIMEOUT_MINUTES == 30
AiTopK == 100
AiThreshold == 500

(* self.embedding_dim (config.EMBEDDING_DIM): the length of the sample     *)
(* embeddings of the model                                                 *)
embedding_dim == 2

(* an optional argument: None, or Some(x) *)
None == <<>>

Some(x) == <<x>>

(***************************************************************************)
(* Embeddings                                                              *)
(***************************************************************************)
RECURSIVE DotUpTo(_, _, _)
DotUpTo(a, b, n) == IF n = 0 THEN 0 ELSE a[n] * b[n] + DotUpTo(a, b, n - 1)

Dot(a, b) == DotUpTo(a, b, Len(a))

RECURSIVE ISqrtFrom(_, _)
ISqrtFrom(s, n) == IF (n + 1) * (n + 1) > s THEN n ELSE ISqrtFrom(s, n + 1)

(* np.linalg.norm(embedding); the sample embeddings have integral norms *)
Norm(v) == ISqrtFrom(Dot(v, v), 0)

(* add_face: embedding / norm when norm > 0, else the embedding as it is *)
Normalize(v) ==
    IF Norm(v) > 0
    THEN [i \in 1 .. Len(v) |-> (v[i] * Unit) \div Norm(v)]
    ELSE [i \in 1 .. Len(v) |-> v[i] * Unit]

(* add_faces_batch: embeddings_array / (norms + 1e-7); the 1e-7 is below   *)
(* the resolution of Unit, and it makes the division of a zero row defined *)
NormalizeBatch(v) ==
    IF Norm(v) > 0
    THEN [i \in 1 .. Len(v) |-> (v[i] * Unit) \div Norm(v)]
    ELSE [i \in 1 .. Len(v) |-> 0]

(* inner product of two stored vectors: faiss METRIC_INNER_PRODUCT *)
InnerProduct(a, b) == Dot(a, b) \div Unit

(* squared euclidean distance of two stored vectors: faiss METRIC_L2 *)
L2Sqr(a, b) == (Dot(a, a) + Dot(b, b) - 2 * Dot(a, b)) \div Unit

(***************************************************************************)
(* The faiss index.  kind "Flat" is faiss.IndexFlatIP, kind "IVF" is       *)
(* faiss.IndexIVFFlat(quantizer, d, nlist) over an IndexFlatIP quantizer.  *)
(* vecs[i] is the vector faiss holds under the label i - 1.                *)
(***************************************************************************)
IndexFlatIP ==
    [kind |-> "Flat", d |-> embedding_dim, is_trained |-> TRUE,
     centroids |-> <<>>, vecs |-> <<>>]

IndexIVFFlat ==
    [kind |-> "IVF", d |-> embedding_dim, is_trained |-> FALSE,
     centroids |-> <<>>, vecs |-> <<>>]

ntotal(ix) == Len(ix.vecs)

(* mutant of DimMismatch: the length of the rows is not looked at *)
DimMismatchIgnored(ix, xs) == FALSE

(* index.add(x), index.train(x) and index.search(x, k) start with          *)
(* "assert d == self.d": rows of another length than the index's raise     *)
DimMismatch(ix, xs) == \E i \in 1 .. Len(xs) : Len(xs[i]) # ix.d

(* index.train(x) raises when there are fewer training points than clusters *)
CanTrain(xs) == Len(xs) >= nlist

(* index.train(x) raises *)
IndexTrainRaises(ix, xs) == DimMismatch(ix, xs) \/ ~CanTrain(xs)

(* index.add(x) raises: rows of the wrong length, or an index that needs   *)
(* training and has none                                                   *)
IndexAddRaises(ix, xs) == DimMismatch(ix, xs) \/ ~ix.is_trained

(* The centroids k-means can end on: nlist of the training points.         *)
(* pick is the set of their positions in xs.                               *)
TrainPicks(xs) == {S \in SUBSET (1 .. Len(xs)) : Cardinality(S) = nlist}

RECURSIVE SeqOfSet(_)
SeqOfSet(S) ==
    IF S = {} THEN <<>>
    ELSE LET m == CHOOSE x \in S : \A y \in S : x <= y
         IN <<m>> \o SeqOfSet(S \ {m})

IndexTrain(ix, xs, pick) ==
    [ix EXCEPT !.is_trained = TRUE,
               !.centroids = [i \in 1 .. Cardinality(pick) |-> xs[SeqOfSet(pick)[i]]]]

(* index.add(x): the vectors get the next labels ntotal, ntotal + 1, ...   *)
IndexAdd(ix, xs) == [ix EXCEPT !.vecs = @ \o xs]

(* the inverted list a vector falls in: the centroid of greatest inner     *)
(* product (the quantizer is an IndexFlatIP), the first one on a tie       *)
Assign(cents, v) ==
    CHOOSE c \in 1 .. Len(cents) :
        \A d \in 1 .. Len(cents) :
            \/ InnerProduct(cents[c], v) > InnerProduct(cents[d], v)
            \/ InnerProduct(cents[c], v) = InnerProduct(cents[d], v) /\ c <= d

(* c is among the nprobe lists a search for q scans *)
Probed(cents, q, c) ==
    Cardinality({d \in 1 .. Len(cents) :
        \/ InnerProduct(cents[d], q) > InnerProduct(cents[c], q)
        \/ InnerProduct(cents[d], q) = InnerProduct(cents[c], q) /\ d < c}) < nprobe

(* positions of the vectors a search for q compares q with *)
Scanned(ix, q) ==
    IF ix.kind = "Flat" THEN 1 .. Len(ix.vecs)
    ELSE {i \in 1 .. Len(ix.vecs) : Probed(ix.centroids, q, Assign(ix.centroids, ix.vecs[i]))}

(* the number faiss reports for a stored vector: the inner product for the *)
(* flat index; the squared L2 distance for the IVF index, whose            *)
(* constructor is called without a metric and so defaults to METRIC_L2     *)
Score(ix, q, i) ==
    IF ix.kind = "Flat" THEN InnerProduct(q, ix.vecs[i]) ELSE L2Sqr(q, ix.vecs[i])

Scores(ix, q) == [i \in 1 .. Len(ix.vecs) |-> Score(ix, q, i)]

(* i is reported before j: the greater inner product or the smaller        *)
(* distance first; the order of equal scores is the build's (tie)          *)
Before(kind, scores, tie, i, j) ==
    \/ IF kind = "Flat" THEN scores[i] > scores[j] ELSE scores[i] < scores[j]
    \/ scores[i] = scores[j] /\ IF tie = "asc" THEN i < j ELSE i > j

Rank(kind, scores, scanned, tie, i) ==
    Cardinality({j \in scanned : Before(kind, scores, tie, j, i)})

(* the k pairs <<score, label>> of an answer, best first; when fewer than  *)
(* k vectors were scanned the rest of the answer is filled with the label  *)
(* -1 and the worst score of the metric (FLT_MAX as a distance, -FLT_MAX   *)
(* as an inner product)                                                    *)
Answer(kind, scores, scanned, k, tie) ==
    [r \in 1 .. k |->
        IF r <= Cardinality(scanned)
        THEN LET i == CHOOSE j \in scanned : Rank(kind, scores, scanned, tie, j) = r - 1
             IN <<scores[i], i - 1>>
        ELSE <<IF kind = "Flat" THEN -FLT_MAX ELSE FLT_MAX, -1>>]

(* F of the value of v *)
Bind(v, F(_)) == CHOOSE y \in {F(x) : x \in {v}} : TRUE

(* index.search(q, k) *)
IndexSearch(ix, q, k, tie) ==
    Bind(<<Scores(ix, q), Scanned(ix, q)>>,
         LAMBDA s : Answer(ix.kind, s[1], s[2], k, tie))

(***************************************************************************)
(* FaceVectorDB                                                            *)
(***************************************************************************)
Min(a, b) == IF a < b THEN a ELSE b

Max(a, b) == IF a > b THEN a ELSE b

(* self.metadata[idx] for a python list: a negative idx counts from the end *)
PyItem(md, idx) == IF idx >= 0 THEN md[idx + 1] ELSE md[Len(md) + idx + 1]

(* the dict add_face / add_faces_batch append to self.metadata *)
FaceMetadata(f) == [photo_path |-> f.photo_path, bbox |-> f.bbox]

(* the loop body of search_similar_faces, lines 298-313: a raw pair is     *)
(* kept when similarity >= threshold and idx < len(self.metadata)          *)
Kept(md, thr, pair) == pair[1] >= thr /\ pair[2] < Len(md)

Hit(md, pair) ==
    [id |-> pair[2],
     photo_path |-> PyItem(md, pair[2]).photo_path,
     bbox |-> PyItem(md, pair[2]).bbox,
     similarity |-> pair[1],
     is_expanded |-> FALSE]

HitsOf(md, kept) == [i \in 1 .. Len(kept) |-> Hit(md, kept[i])]

(* self.metadata[idx] raises IndexError for idx < -len(self.metadata); the *)
(* except of line 317 turns it into the answer []                          *)
LookupRaises(md, kept) == \E i \in 1 .. Len(kept) : kept[i][2] < -Len(md)

Results(md, thr, raw) ==
    Bind(SelectSeq(raw, LAMBDA pair : Kept(md, thr, pair)),
         LAMBDA kept : IF LookupRaises(md, kept) THEN <<>> ELSE HitsOf(md, kept))

(* FaceVectorDB.search_similar_faces(query_embedding, top_k, threshold).   *)
(* An exception of index.search (k < 1, an untrained index) is caught and  *)
(* [] is returned.                                                         *)
search_similar_faces(ix, md, q, top_k, thr, tie) ==
    IF ntotal(ix) = 0 THEN <<>>
    ELSE IF Min(top_k, ntotal(ix)) < 1 \/ ~ix.is_trained \/ DimMismatch(ix, <<q>>) THEN <<>>
    ELSE Bind(Normalize(q),
              LAMBDA nq : Results(md, thr, IndexSearch(ix, nq, Min(top_k, ntotal(ix)), tie)))

(* FaceVectorDB.get_count *)
get_count(ix) == ntotal(ix)

(***************************************************************************)
(* The mutating methods of FaceVectorDB as functions of the database       *)
(* db = [index, metadata], each with its _save_index().                    *)
(***************************************************************************)
EmptyDB == [index |-> IndexFlatIP, metadata |-> <<>>]

(* add_face raises at line 162 (index.add), before anything is stored *)
AddFaceRaises(db, f) == IndexAddRaises(db.index, <<Normalize(f.embedding)>>)

(* add_face(embedding, photo_path, bbox), lines 139-168 *)
AddFace(db, f) ==
    IF AddFaceRaises(db, f) THEN db
    ELSE [index |-> IndexAdd(db.index, <<Normalize(f.embedding)>>),
          metadata |-> Append(db.metadata, FaceMetadata(f))]

(* the id add_face returns: str(len(self.metadata) - 1) *)
AddFaceId(db, f) == Len(AddFace(db, f).metadata) - 1

NormalizedBatch(batch) == [i \in 1 .. Len(batch) |-> NormalizeBatch(batch[i].embedding)]

(* line 196: np.array(embeddings, dtype=np.float32) raises for rows of     *)
(* different lengths                                                       *)
ArrayRaises(batch) ==
    \E i, j \in 1 .. Len(batch) : Len(batch[i].embedding) # Len(batch[j].embedding)

(* lines 200-204: the upgrade to IVF is decided on the index's own count *)
NeedsUpgrade(ix, batch) ==
    use_ivf /\ ntotal(ix) + Len(batch) > IvfThreshold /\ ix.kind = "Flat"

(* lines 215-224: a new, empty IVF index trained on the batch alone        *)
(* replaces self.index; what the old index held is not carried over        *)
UpgradedIndex(ix, batch, pick) == IndexTrain(IndexIVFFlat, NormalizedBatch(batch), pick)

(* new_index.train raises at line 222, before anything is assigned *)
UpgradeRaises(ix, batch) ==
    NeedsUpgrade(ix, batch) /\ IndexTrainRaises(IndexIVFFlat, NormalizedBatch(batch))

(* self.index after lines 204-224 *)
IndexAfterUpgrade(ix, batch, pick) ==
    IF NeedsUpgrade(ix, batch) THEN UpgradedIndex(ix, batch, pick) ELSE ix

(* lines 248-250: an index that is not trained is trained on the batch *)
TrainRaises(ix, batch) == ~ix.is_trained /\ IndexTrainRaises(ix, NormalizedBatch(batch))

IndexAfterTrain(ix, batch, pick) ==
    IF ix.is_trained THEN ix ELSE IndexTrain(ix, NormalizedBatch(batch), pick)

(* the records lines 228-244 append to self.metadata *)
BatchMetadata(batch) == [i \in 1 .. Len(batch) |-> FaceMetadata(batch[i])]

(* lines 227-257: the metadata is appended, the batch is added to the      *)
(* index the call now holds                                                *)
StoreBatch(ix, md, batch) ==
    [index |-> IndexAdd(ix, NormalizedBatch(batch)),
     metadata |-> md \o BatchMetadata(batch)]

(* the call raises before it has assigned anything: lines 196 and 222 *)
BatchRaisesEarly(db, batch) ==
    Len(batch) > 0 /\ (ArrayRaises(batch) \/ UpgradeRaises(db.index, batch))

(* the call raises at line 250 or 252, after the metadata was appended *)
BatchRaisesLate(db, batch) ==
    /\ Len(batch) > 0
    /\ ~BatchRaisesEarly(db, batch)
    /\ \/ TrainRaises(IndexAfterUpgrade(db.index, batch, {}), batch)
       \/ DimMismatch(db.index, NormalizedBatch(batch))

BatchRaises(db, batch) == BatchRaisesEarly(db, batch) \/ BatchRaisesLate(db, batch)

(* the training outcomes the call can have *)
BatchPicks(db, batch) ==
    IF Len(batch) > 0 /\ ~BatchRaises(db, batch)
          /\ (NeedsUpgrade(db.index, batch) \/ ~db.index.is_trained)
    THEN TrainPicks(NormalizedBatch(batch)) ELSE {{}}

(* add_faces_batch(embeddings, photo_paths, bboxes): the database the call *)
(* leaves, whether it returns or raises; pick is the outcome of the        *)
(* training, if there is one                                               *)
AddFacesBatch(db, batch, pick) ==
    IF Len(batch) = 0 \/ BatchRaisesEarly(db, batch) THEN db
    ELSE IF BatchRaisesLate(db, batch)
    THEN [index |-> IndexAfterUpgrade(db.index, batch, pick),
          metadata |-> db.metadata \o BatchMetadata(batch)]
    ELSE StoreBatch(IndexAfterTrain(IndexAfterUpgrade(db.index, batch, pick), batch, pick),
                    db.metadata, batch)

(* the ids add_faces_batch returns, lines 262-263 *)
AddFacesBatchIds(db, batch, pick) ==
    LET md == AddFacesBatch(db, batch, pick).metadata
    IN [i \in 1 .. Len(batch) |-> Len(md) - Len(batch) + i - 1]

(* delete_by_photo(photo_path): counts the records of the photo and        *)
(* returns the count; lines 355-370 change neither index nor metadata      *)
DeleteByPhoto(db, p) == db

DeletedCount(db, p) ==
    Len(db.metadata) - Len(SelectSeq(db.metadata, LAMBDA m : m.photo_path # p))

(* mutant of ResetDB: the index and the metadata are left as they are *)
ResetDBKeeping(db) == db

(* reset(), lines 382-384 *)
ResetDB(db) == [index |-> IndexFlatIP, metadata |-> <<>>]

(***************************************************************************)
(* Inputs                                                                  *)
(***************************************************************************)
Photos == {"p1.jpg", "p2.jpg"}

(* faces handed to the database: embedding, owning photo, bounding box.    *)
(* Against the query <<1, 0>> their similarities are 1.0, 0.8, 0.47,       *)
(* 0.384 and 0.28.                                                         *)
FaceX == [embedding |-> <<3, 0>>,  photo_path |-> "p1.jpg", bbox |-> <<0, 0, 10, 10>>]

FaceA == [embedding |-> <<8, 6>>,  photo_path |-> "p1.jpg", bbox |-> <<20, 0, 10, 10>>]

FaceB == [embedding |-> <<8, 15>>, photo_path |-> "p2.jpg", bbox |-> <<5, 5, 8, 8>>]

FaceC == [embedding |-> <<5, 12>>, photo_path |-> "p2.jpg", bbox |-> <<30, 5, 8, 8>>]

FaceD == [embedding |-> <<7, 24>>, photo_path |-> "p1.jpg", bbox |-> <<40, 0, 10, 10>>]

Faces == {FaceX, FaceA, FaceB}

(* faces whose embedding has not the length embedding_dim *)
FaceShort == [embedding |-> <<3>>, photo_path |-> "p2.jpg", bbox |-> <<50, 0, 10, 10>>]

FaceLong == [embedding |-> <<3, 0, 4>>, photo_path |-> "p2.jpg", bbox |-> <<60, 0, 10, 10>>]

BadFaces == {FaceShort, FaceLong}

Batches == UNION {[1 .. n -> Faces] : n \in 0 .. MaxBatch}

(* batches with an embedding of the wrong length: all rows of one length,  *)
(* and rows of different lengths                                           *)
BadBatches == {<<FaceLong, FaceLong>>, <<FaceA, FaceShort>>}

Queries == {<<1, 0>>, <<0, 2>>}

TieOrders == {"asc", "desc"}

(* top_k and similarity_threshold as the caller gives them *)
TopKs == {None, Some(0), Some(1), Some(3)}

Thresholds == {None, Some(0), Some(350), Some(500), Some(600)}

NoCall == [op |-> "none", photo |-> "", ids |-> <<>>, count |-> 0, ok |-> TRUE, dims |-> {}]

NoRequest ==
    /\ pc = "idle"
    /\ query = <<>>
    /\ max_results = 0
    /\ primary_threshold = 0
    /\ matches_stage1 = <<>>
    /\ all_matches = <<>>
    /\ nsearch = 0
    /\ stage2_threshold = None
    /\ photo_matches = <<>>

(***************************************************************************)
(* The two files of persist_dir: faiss_index.bin and metadata.pkl.  A file *)
(* is absent, complete ("ok", with the value written) or partly written.   *)
(***************************************************************************)
NoFiles ==
    [index_file |-> [state |-> "absent", data |-> IndexFlatIP],
     metadata_file |-> [state |-> "absent", data |-> <<>>]]

(* _save_index(), lines 109-113: the index file is written, then the       *)
(* metadata file, each in place                                            *)
SaveIndex(ix, md) ==
    [index_file |-> [state |-> "ok", data |-> ix],
     metadata_file |-> [state |-> "ok", data |-> md]]

(* the files a process leaves that dies in _save_index():                  *)
(*   point 1  in faiss.write_index: the index file is partly written       *)
(*   point 2  between the two writes: only the index file is the new one   *)
(*   point 3  in pickle.dump: the metadata file is partly written          *)
CrashPoints == {1, 2, 3}

SaveIndexCrashed(old, ix, md, point) ==
    IF point = 1
    THEN [old EXCEPT !.index_file = [state |-> "partial", data |-> IndexFlatIP]]
    ELSE IF point = 2
    THEN [old EXCEPT !.index_file = [state |-> "ok", data |-> ix]]
    ELSE [index_file |-> [state |-> "ok", data |-> ix],
          metadata_file |-> [state |-> "partial", data |-> <<>>]]

(* _create_index(), lines 93-103, for the self.metadata of the moment *)
CreateIndex(md) ==
    IF use_ivf /\ Len(md) > IvfThreshold THEN IndexIVFFlat ELSE IndexFlatIP

(* _load_index(), lines 59-88: the database and the files it leaves *)
LoadIndex(files) ==
    IF files.index_file.state = "absent" \/ files.metadata_file.state = "absent"
    THEN [index |-> CreateIndex(<<>>), metadata |-> <<>>, disk |-> files]
    ELSE IF files.metadata_file.state = "partial"
    THEN [index |-> CreateIndex(<<>>), metadata |-> <<>>, disk |-> files]
    ELSE IF files.index_file.state = "partial"
    THEN [index |-> CreateIndex(files.metadata_file.data), metadata |-> <<>>, disk |-> files]
    ELSE IF files.index_file.data.d # embedding_dim
    THEN [index |-> CreateIndex(files.metadata_file.data), metadata |-> <<>>,
          disk |-> SaveIndex(CreateIndex(files.metadata_file.data), <<>>)]
    ELSE [index |-> files.index_file.data, metadata |-> files.metadata_file.data,
          disk |-> files]

(***************************************************************************)
(* Calls of the database.  last records the call and what it returned.     *)
(***************************************************************************)
Idle == pc = "idle"

DB == [index |-> index, metadata |-> metadata]

(* the lengths of the embeddings a call was given *)
DimsOf(batch) == {Len(batch[i].embedding) : i \in 1 .. Len(batch)}

SetOfSeq(ids) == {ids[i] : i \in 1 .. Len(ids)}

add_face_stores(f) ==
    /\ ~AddFaceRaises(DB, f)
    /\ \E db \in {AddFace(DB, f)} :
          /\ index' = db.index
          /\ metadata' = db.metadata
    /\ last' = [op |-> "add_face", photo |-> f.photo_path,
                ids |-> <<AddFaceId(DB, f)>>, count |-> 1, ok |-> TRUE,
                dims |-> DimsOf(<<f>>)]
    /\ issued' = issued \cup SetOfSeq(last'.ids)
    /\ disk' = SaveIndex(index', metadata')
    /\ stable' = {[index |-> index', metadata |-> metadata']}

add_face_raises(f) ==
    /\ AddFaceRaises(DB, f)
    /\ last' = [op |-> "add_face", photo |-> f.photo_path, ids |-> <<>>,
                count |-> 0, ok |-> FALSE, dims |-> DimsOf(<<f>>)]
    /\ UNCHANGED <<index, metadata, issued, disk, stable>>

add_face(f) ==
    /\ Idle
    /\ Len(metadata) < MaxFaces
    /\ \/ add_face_stores(f)
       \/ add_face_raises(f)
    /\ UNCHANGED <<tieOrder, reqvars, sessvars, concvars>>

add_faces_batch_stores(batch) ==
    /\ ~BatchRaises(DB, batch)
    /\ \E pick \in BatchPicks(DB, batch) :
          /\ \E db \in {AddFacesBatch(DB, batch, pick)} :
                 /\ index' = db.index
                 /\ metadata' = db.metadata
          /\ last' = [op |-> "add_faces_batch", photo |-> "",
                      ids |-> IF Len(batch) = 0 THEN <<>>
                              ELSE AddFacesBatchIds(DB, batch, pick),
                      count |-> Len(batch), ok |-> TRUE, dims |-> DimsOf(batch)]
    /\ issued' = issued \cup SetOfSeq(last'.ids)
    /\ disk' = IF Len(batch) = 0 THEN disk ELSE SaveIndex(index', metadata')
    /\ stable' = IF Len(batch) = 0 THEN stable
                 ELSE {[index |-> index', metadata |-> metadata']}

add_faces_batch_raises(batch) ==
    /\ BatchRaises(DB, batch)
    /\ \E db \in {AddFacesBatch(DB, batch, {})} :
          /\ index' = db.index
          /\ metadata' = db.metadata
    /\ last' = [op |-> "add_faces_batch", photo |-> "", ids |-> <<>>,
                count |-> 0, ok |-> FALSE, dims |-> DimsOf(batch)]
    /\ UNCHANGED <<issued, disk, stable>>

add_faces_batch(batch) ==
    /\ Idle
    /\ Len(metadata) + Len(batch) <= MaxFaces
    /\ \/ add_faces_batch_stores(batch)
       \/ add_faces_batch_raises(batch)
    /\ UNCHANGED <<tieOrder, reqvars, sessvars, concvars>>

delete_by_photo(p) ==
    /\ Idle
    /\ index' = DeleteByPhoto(DB, p).index
    /\ metadata' = DeleteByPhoto(DB, p).metadata
    /\ last' = [op |-> "delete_by_photo", photo |-> p, ids |-> <<>>,
                count |-> DeletedCount(DB, p), ok |-> TRUE, dims |-> {}]
    /\ UNCHANGED <<tieOrder, issued, disk, stable, reqvars, sessvars, concvars>>

reset ==
    /\ Idle
    /\ index' = ResetDB(DB).index
    /\ metadata' = ResetDB(DB).metadata
    /\ last' = [op |-> "reset", photo |-> "", ids |-> <<>>, count |-> 0, ok |-> TRUE,
                dims |-> {}]
    /\ disk' = SaveIndex(index', metadata')
    /\ stable' = {[index |-> index', metadata |-> metadata']}
    /\ UNCHANGED <<tieOrder, issued, reqvars, sessvars, concvars>>

(***************************************************************************)
(* GuestService.search_photos_by_selfie, lines 119-180: the staged search. *)
(* pc names the stage the request has completed.                           *)
(***************************************************************************)
(* x or default: python takes the default for None and for 0 *)
OrDefault(x, default) == IF x = None \/ x = Some(0) THEN default ELSE x[1]

(* mutant of SecondaryThreshold: the floor taken as a ceiling *)
SecondaryThresholdMin(primary) == Min(ExpandFloor, primary - ExpandDelta)

(* mutant of SecondaryThreshold: the delta is added *)
SecondaryThresholdRaised(primary) == Max(ExpandFloor, primary + ExpandDelta)

(* line 146 *)
SecondaryThreshold(primary) == Max(ExpandFloor, primary - ExpandDelta)

(* list.sort(key = similarity, reverse = True): stable, so of two matches  *)
(* of equal similarity the one that was first stays first.  SortedPlace is *)
(* the place the i-th match is moved to.                                   *)
SortedPlace(ms, i) ==
    1 + Cardinality({j \in 1 .. Len(ms) :
            \/ ms[j].similarity > ms[i].similarity
            \/ ms[j].similarity = ms[i].similarity /\ j < i})

SortBySimilarity(ms) ==
    [r \in 1 .. Len(ms) |-> ms[CHOOSE i \in 1 .. Len(ms) : SortedPlace(ms, i) = r]]

IdsOf(ms) == {ms[i].id : i \in 1 .. Len(ms)}

(* lines 156-162: the stage-2 matches whose id stage 1 did not return,     *)
(* each marked is_expanded                                                 *)
Marked(ms) == [i \in 1 .. Len(ms) |-> [ms[i] EXCEPT !.is_expanded = TRUE]]

NewMatches(all, stage2) ==
    Bind(SelectSeq(stage2, LAMBDA m : m.id \notin IdsOf(all)), LAMBDA fresh : Marked(fresh))

(* mutant of ExpandedMatches: the stage-2 answer replaces the list *)
ExpandedMatchesReplacing(all, stage2) == NewMatches(<<>>, stage2)

(* line 162: all_matches.extend(new_matches) *)
ExpandedMatches(all, stage2) == all \o NewMatches(all, stage2)

(* lines 171-176: the fallback matches are appended as the search gave them *)
FallbackMatches(all, fallback) == all \o fallback

(* mutant of RunsExpand: <= for < *)
RunsExpandOffByOne(stage1) == stage1 # <<>> /\ Len(stage1) <= SufficientMatches

(* lines 139 and 148: the second search is the expand search *)
RunsExpand(stage1) == stage1 # <<>> /\ Len(stage1) < SufficientMatches

(* line 165: the second search is the fallback search *)
RunsFallback(stage1) == stage1 = <<>>

(* Stage 1, lines 119-137 *)
Primary(q, top_k, thr) ==
    /\ pc = "idle"
    /\ pc' = "PRIMARY"
    /\ query' = q
    /\ max_results' = OrDefault(top_k, MAX_RESULTS)
    /\ primary_threshold' = OrDefault(thr, SIMILARITY_THRESHOLD)
    /\ matches_stage1' = search_similar_faces(index, metadata, q, max_results',
                                              primary_threshold', tieOrder)
    /\ all_matches' = matches_stage1'
    /\ nsearch' = 1
    /\ stage2_threshold' = None
    /\ UNCHANGED <<dbvars, photo_matches, sessvars, concvars>>

(* Smart Expand, lines 139-163 *)
Expand ==
    /\ pc = "PRIMARY"
    /\ RunsExpand(matches_stage1)
    /\ pc' = "EXPAND"
    /\ stage2_threshold' = Some(SecondaryThreshold(primary_threshold))
    /\ \E matches_stage2 \in
           {search_similar_faces(index, metadata, query, max_results,
                                 SecondaryThreshold(primary_threshold), tieOrder)} :
           all_matches' = ExpandedMatches(all_matches, matches_stage2)
    /\ nsearch' = nsearch + 1
    /\ UNCHANGED <<dbvars, query, max_results, primary_threshold, matches_stage1,
                   photo_matches, sessvars, concvars>>

(* Deep Fallback, lines 165-177 *)
Fallback ==
    /\ pc = "PRIMARY"
    /\ RunsFallback(matches_stage1)
    /\ pc' = "FALLBACK"
    /\ stage2_threshold' = Some(fallback_threshold)
    /\ \E matches_fallback \in
           {search_similar_faces(index, metadata, query, max_results,
                                 fallback_threshold, tieOrder)} :
           all_matches' = FallbackMatches(all_matches, matches_fallback)
    /\ nsearch' = nsearch + 1
    /\ UNCHANGED <<dbvars, query, max_results, primary_threshold, matches_stage1,
                   photo_matches, sessvars, concvars>>

(* line 180: all_matches.sort(...) *)
Merge ==
    /\ \/ pc \in {"EXPAND", "FALLBACK"}
       \/ pc = "PRIMARY" /\ ~RunsExpand(matches_stage1) /\ ~RunsFallback(matches_stage1)
    /\ pc' = "MERGED"
    /\ all_matches' = SortBySimilarity(all_matches)
    /\ UNCHANGED <<dbvars, query, max_results, primary_threshold, matches_stage1,
                   nsearch, stage2_threshold, photo_matches, sessvars, concvars>>

(***************************************************************************)
(* GuestService._group_matches_by_photo, lines 222-257                     *)
(***************************************************************************)
PhotosOf(ms) == {ms[i].photo_path : i \in 1 .. Len(ms)}

(* the place of the first match of the photo *)
FirstMatch(ms, p) ==
    CHOOSE i \in 1 .. Len(ms) :
        ms[i].photo_path = p /\ \A j \in 1 .. i - 1 : ms[j].photo_path # p

(* the keys of photo_dict in the order they were inserted, which is the    *)
(* order photo_dict.values() yields                                        *)
PhotoOrder(ms) ==
    [r \in 1 .. Cardinality(PhotosOf(ms)) |->
        CHOOSE p \in PhotosOf(ms) :
            Cardinality({o \in PhotosOf(ms) : FirstMatch(ms, o) < FirstMatch(ms, p)}) = r - 1]

(* lines 237-240: faces_found of a photo *)
FaceInfo(m) == [bbox |-> m.bbox, similarity |-> m.similarity]

FacesFound(ms, p) ==
    Bind(SelectSeq(ms, LAMBDA m : m.photo_path = p),
         LAMBDA own : [i \in 1 .. Len(own) |-> FaceInfo(own[i])])

(* lines 232 and 243-244: max_similarity starts at 0.0 and is raised by    *)
(* every face whose similarity is greater                                  *)
RECURSIVE MaxSimilarityFrom(_, _, _)
MaxSimilarityFrom(faces, n, start) ==
    IF n = 0 THEN start
    ELSE LET before == MaxSimilarityFrom(faces, n - 1, start)
         IN IF faces[n].similarity > before THEN faces[n].similarity ELSE before

(* line 250: sum(similarities) *)
RECURSIVE SumSimilarities(_, _)
SumSimilarities(faces, n) ==
    IF n = 0 THEN 0 ELSE faces[n].similarity + SumSimilarities(faces, n - 1)

(* lines 228-234 and 249-251: the entry of a photo *)
PhotoDataOf(p, faces) ==
    [photo_path |-> p,
     faces_found |-> faces,
     max_similarity |-> MaxSimilarityFrom(faces, Len(faces), 0),
     avg_similarity |-> SumSimilarities(faces, Len(faces)) \div Len(faces),
     face_count |-> Len(faces)]

PhotoData(ms, p) == Bind(FacesFound(ms, p), LAMBDA faces : PhotoDataOf(p, faces))

(* line 255: photo_matches.sort(key = max_similarity, reverse = True), a   *)
(* stable sort                                                             *)
GroupSortedPlace(gs, i) ==
    1 + Cardinality({j \in 1 .. Len(gs) :
            \/ gs[j].max_similarity > gs[i].max_similarity
            \/ gs[j].max_similarity = gs[i].max_similarity /\ j < i})

SortByMaxSimilarity(gs) ==
    [r \in 1 .. Len(gs) |-> gs[CHOOSE i \in 1 .. Len(gs) : GroupSortedPlace(gs, i) = r]]

group_matches_by_photo(ms) ==
    Bind(PhotoOrder(ms),
         LAMBDA order : Bind([r \in 1 .. Len(order) |-> PhotoData(ms, order[r])],
                             LAMBDA gs : SortByMaxSimilarity(gs)))

(* lines 187-199: the matches are grouped unless there are none *)
Group ==
    /\ pc = "MERGED"
    /\ all_matches # <<>>
    /\ pc' = "GROUPED"
    /\ photo_matches' = group_matches_by_photo(all_matches)
    /\ UNCHANGED <<dbvars, query, max_results, primary_threshold, matches_stage1,
                   all_matches, nsearch, stage2_threshold, sessvars, concvars>>

(* lines 188-193 and 205-210: the response is returned and the request is  *)
(* over                                                                    *)
Return ==
    /\ \/ pc = "MERGED" /\ all_matches = <<>>
       \/ pc = "GROUPED"
    /\ pc' = "idle"
    /\ query' = <<>>
    /\ max_results' = 0
    /\ primary_threshold' = 0
    /\ matches_stage1' = <<>>
    /\ all_matches' = <<>>
    /\ nsearch' = 0
    /\ stage2_threshold' = None
    /\ photo_matches' = <<>>
    /\ UNCHANGED <<dbvars, sessvars, concvars>>

(***************************************************************************)
(* A process that dies while it saves, and the next start.  pc = "down"    *)
(* is the time between the two.                                            *)
(***************************************************************************)
(* the databases a mutating call can hold when it reaches _save_index() *)
SavingCalls(faces, batches) ==
    {AddFace(DB, f) : f \in {g \in faces : /\ Len(metadata) < MaxFaces
                                            /\ ~AddFaceRaises(DB, g)}}
    \cup UNION {{AddFacesBatch(DB, batch, pick) : pick \in BatchPicks(DB, batch)} :
                batch \in {b \in batches : /\ Len(b) > 0
                                           /\ Len(metadata) + Len(b) <= MaxFaces
                                           /\ ~BatchRaises(DB, b)}}
    \cup {ResetDB(DB)}

(* add_face, add_faces_batch or reset has changed self.index and           *)
(* self.metadata and the process dies in _save_index(), lines 109-113      *)
crash_in_save(faces, batches, point) ==
    /\ Idle
    /\ \E db \in SavingCalls(faces, batches) :
          /\ disk' = SaveIndexCrashed(disk, db.index, db.metadata, point)
          /\ stable' = stable \cup {db}
    /\ pc' = "down"
    /\ index' = IndexFlatIP
    /\ metadata' = <<>>
    /\ last' = [op |-> "crash", photo |-> "", ids |-> <<>>, count |-> point, ok |-> FALSE,
                dims |-> {}]
    /\ UNCHANGED <<tieOrder, issued, query, max_results, primary_threshold, matches_stage1,
                   all_matches, nsearch, stage2_threshold, photo_matches,
                   sessvars, concvars>>

(* loaded_index.d of line 68, when both files could be read *)
LoadedDims(files) ==
    IF files.index_file.state = "ok" /\ files.metadata_file.state = "ok"
    THEN {files.index_file.data.d} ELSE {}

(* FaceVectorDB.__init__ of the next process: _load_index() *)
load ==
    /\ pc = "down"
    /\ pc' = "idle"
    /\ index' = LoadIndex(disk).index
    /\ metadata' = LoadIndex(disk).metadata
    /\ disk' = LoadIndex(disk).disk
    /\ stable' = IF disk' = disk /\ [index |-> index', metadata |-> metadata'] \notin stable
                 THEN stable
                 ELSE {[index |-> index', metadata |-> metadata']}
    /\ last' = [op |-> "load", photo |-> "", ids |-> <<>>, count |-> Len(metadata'),
                ok |-> TRUE, dims |-> LoadedDims(disk)]
    /\ UNCHANGED <<tieOrder, issued, query, max_results, primary_threshold, matches_stage1,
                   all_matches, nsearch, stage2_threshold, photo_matches,
                   sessvars, concvars>>

(***************************************************************************)
(* AISearchService.create_session and get_session over the module-level    *)
(* dict _sessions.  Time is in minutes.                                    *)
(***************************************************************************)
(* the values uuid.uuid4() can take *)
SessionIds == 1 .. MaxSessions

SelfieNames == {"selfie.jpg"}

(* the amounts of time that pass between two calls *)
TickSteps == {15, 16}

NoGot == [op |-> "none", id |-> 0, user_query |-> "", session |-> None]

(* mutant of Uuid4: a value that was returned before can be returned again *)
Uuid4Repeating(given) == SessionIds

(* line 63, str(uuid.uuid4()): 122 random bits; a value returned before is *)
(* taken not to be returned again                                          *)
Uuid4(given) == SessionIds \ {h.id : h \in given}

(* lines 65-70 *)
NewSession(face_embedding, selfie_filename, t) ==
    [face_embedding |-> face_embedding,
     selfie_filename |-> selfie_filename,
     created_at |-> t,
     chat_history |-> <<>>]

(* mutant of TimedOut: a session of exactly the timeout's age has expired *)
TimedOutEarly(session, t) == t - session.created_at >= SESSION_TIMEOUT_MINUTES

(* lines 81-82: datetime.now() - session['created_at'] > timedelta(...) *)
TimedOut(session, t) == t - session.created_at > SESSION_TIMEOUT_MINUTES

(* _sessions[session_id] = session *)
PutSession(ss, id, session) ==
    [i \in DOMAIN ss \cup {id} |-> IF i = id THEN session ELSE ss[i]]

(* del _sessions[session_id] *)
DelSession(ss, id) == [i \in DOMAIN ss \ {id} |-> ss[i]]

create_session(face_embedding, selfie_filename) ==
    /\ Cardinality(handed) < MaxSessions
    /\ \E session_id \in Uuid4(handed) :
          /\ sessions' = PutSession(sessions, session_id,
                                    NewSession(face_embedding, selfie_filename, now))
          /\ got' = [op |-> "create_session", id |-> session_id, user_query |-> "",
                     session |-> None]
          /\ handed' = handed \cup {[id |-> session_id,
                                     face_embedding |-> face_embedding, at |-> now]}
    /\ UNCHANGED <<now, dbvars, reqvars, concvars>>

get_session(session_id) ==
    /\ IF session_id \in DOMAIN sessions /\ TimedOut(sessions[session_id], now)
       THEN /\ sessions' = DelSession(sessions, session_id)
            /\ got' = [op |-> "get_session", id |-> session_id, user_query |-> "",
                       session |-> None]
       ELSE /\ sessions' = sessions
            /\ got' = [op |-> "get_session", id |-> session_id, user_query |-> "",
                       session |-> IF session_id \in DOMAIN sessions
                                   THEN Some(sessions[session_id]) ELSE None]
    /\ UNCHANGED <<now, handed, dbvars, reqvars, concvars>>

(* the queries a caller sends *)
QueryTexts == {"show all my photos", "photos from paris"}

(* location_db.locations, photo_path -> location_name: no photo has a      *)
(* location, or p2.jpg was taken in Paris                                  *)
NoLocations == [p \in {} |-> ""]

ParisLocations == [p \in {"p2.jpg"} |-> "Paris"]

LocationDBs == {NoLocations, ParisLocations}

(* lines 379-380: the names get_all_locations() gives *)
AvailableLocations(locations) == {locations[p] : p \in DOMAIN locations}

(* loc.lower() in query_lower, for the sample queries and locations *)
LocationInQuery(loc, user_query) == loc = "Paris" /\ user_query = "photos from paris"

(* _simple_parse_query, lines 186-190: the location of the criteria.  The  *)
(* service runs without a Groq client (GROQ_API_KEY is not set), so        *)
(* parse_query_with_ai and generate_ai_response take their simple paths.   *)
(* The sample queries name no month, so the date range is (None, None).    *)
ParsedLocation(user_query, available) ==
    IF \E loc \in available : LocationInQuery(loc, user_query)
    THEN Some(CHOOSE loc \in available : LocationInQuery(loc, user_query))
    ELSE None

(* _filter_by_location, lines 427-446 *)
FilterByLocation(matches, location, locations) ==
    SelectSeq(matches, LAMBDA m : /\ m.photo_path \in DOMAIN locations
                                  /\ locations[m.photo_path] = location)

(* lines 389-401: the faces of the session's person, of the location the   *)
(* query names                                                             *)
FaceMatches(ix, md, tie, face_embedding, user_query, locations) ==
    Bind(search_similar_faces(ix, md, face_embedding, AiTopK, AiThreshold, tie),
         LAMBDA face_matches :
             IF ParsedLocation(user_query, AvailableLocations(locations)) = None
             THEN face_matches
             ELSE FilterByLocation(face_matches,
                      ParsedLocation(user_query, AvailableLocations(locations))[1],
                      locations))

(* the camera emoji U+1F4F8 that ends every message, as python writes it *)
CameraEmoji == "\\U0001F4F8"

Plural(count) == IF count # 1 THEN "s" ELSE ""

(* _simple_response, lines 335-344 *)
SimpleResponse(count, location) ==
    IF count = 0 THEN "No photos found. Try 'show all my photos'? " \o CameraEmoji
    ELSE IF location # None
    THEN "Found " \o ToString(count) \o " photo" \o Plural(count)
             \o " from " \o location[1] \o "! " \o CameraEmoji
    ELSE "Found " \o ToString(count) \o " photo" \o Plural(count) \o "! " \o CameraEmoji

(* line 410: the message of the answer *)
AiMessage(ix, md, tie, face_embedding, user_query, locations) ==
    SimpleResponse(Len(FaceMatches(ix, md, tie, face_embedding, user_query, locations)),
                   ParsedLocation(user_query, AvailableLocations(locations)))

(* lines 413-417: the entry search_photos adds to chat_history *)
ChatEntry(user_query, ai_message, t) ==
    [user |-> user_query, ai |-> ai_message, timestamp |-> t]

(* mutant of AppendQuery: the entry is put in front *)
AppendQueryFirst(session, entry) ==
    [session EXCEPT !.chat_history = <<entry>> \o @]

(* line 413: session['chat_history'].append(...) *)
AppendQuery(session, entry) ==
    [session EXCEPT !.chat_history = Append(@, entry)]

(* the number of entries of all chat histories *)
RECURSIVE QueriesLogged(_)
QueriesLogged(ss) ==
    IF DOMAIN ss = {} THEN 0
    ELSE LET id == CHOOSE i \in DOMAIN ss : TRUE
         IN Len(ss[id].chat_history) + QueriesLogged(DelSession(ss, id))

(* search_photos(session_id, user_query), lines 368-425: get_session, and  *)
(* for a session that is there the search and one entry more in its        *)
(* chat_history; the method has no await                                   *)
search_photos(session_id, user_query, locations) ==
    /\ IF session_id \in DOMAIN sessions /\ TimedOut(sessions[session_id], now)
       THEN /\ sessions' = DelSession(sessions, session_id)
            /\ got' = [op |-> "search_photos", id |-> session_id,
                       user_query |-> user_query, session |-> None]
       ELSE IF session_id \notin DOMAIN sessions
       THEN /\ sessions' = sessions
            /\ got' = [op |-> "search_photos", id |-> session_id,
                       user_query |-> user_query, session |-> None]
       ELSE \E ai_message \in {AiMessage(index, metadata, tieOrder,
                                           sessions[session_id].face_embedding,
                                           user_query, locations)} :
                /\ QueriesLogged(sessions) < MaxQueries
                /\ sessions' = [sessions EXCEPT ![session_id] =
                        AppendQuery(@, ChatEntry(user_query, ai_message, now))]
                /\ got' = [op |-> "search_photos", id |-> session_id,
                           user_query |-> user_query, session |-> Some(sessions'[session_id])]
    /\ UNCHANGED <<now, handed, dbvars, reqvars, concvars>>

(* time passes *)
Tick(minutes) ==
    /\ now + minutes <= MaxTime
    /\ now' = now + minutes
    /\ UNCHANGED <<sessions, got, handed, dbvars, reqvars, concvars>>

(***************************************************************************)
(* Two requests on the event loop: an upload, whose handler calls          *)
(* add_faces_batch, and a search, whose handler calls                      *)
(* search_similar_faces.  Both methods are given statement by statement.   *)
(* The handlers are coroutines of one event loop (main.py: every endpoint  *)
(* is an async def, the server is started with uvicorn.run and no thread   *)
(* is created); neither method contains an await, so a handler that has    *)
(* entered one of them keeps the loop until the method has returned.       *)
(***************************************************************************)
IdleWriter == [pc |-> "idle", batch |-> <<>>, before |-> EmptyDB]

IdleReader ==
    [pc |-> "idle", q |-> <<>>, top_k |-> 0, thr |-> 0, raw |-> <<>>, result |-> <<>>]

ReaderTopKs == {1, MAX_RESULTS}

ReaderThresholds == {0, SIMILARITY_THRESHOLD}

(* mutant of LoopFree: a handler is run whatever the other handler does *)
LoopFreeAlways(l) == TRUE

(* the event loop runs a handler's synchronous code only when no other     *)
(* handler is inside synchronous code                                      *)
LoopFree(l) == l = "free"

(* add_faces_batch is entered: lines 192-202 *)
writer_begin(batch) ==
    /\ LoopFree(loop)
    /\ writer.pc = "idle"
    /\ Len(batch) > 0
    /\ ~ArrayRaises(batch)
    /\ Len(metadata) + Len(batch) <= MaxFaces
    /\ loop' = "writer"
    /\ writer' = [pc |-> "normalized", batch |-> batch, before |-> DB]
    /\ UNCHANGED <<dbvars, reqvars, sessvars, reader, snapshots>>

(* the call is over, returning or raising: the handler gives up the loop *)
WriterEnds(db, ok, ids) ==
    /\ writer' = IdleWriter
    /\ loop' = IF loop = "writer" THEN "free" ELSE loop
    /\ last' = [op |-> "add_faces_batch", photo |-> "", ids |-> ids,
                count |-> Len(ids), ok |-> ok, dims |-> DimsOf(writer.batch)]
    /\ issued' = issued \cup SetOfSeq(ids)
    /\ snapshots' = IF reader.pc = "idle" THEN snapshots ELSE snapshots \cup {db}

(* lines 204-224 *)
writer_upgrade ==
    /\ writer.pc = "normalized"
    /\ IF UpgradeRaises(index, writer.batch)
       THEN /\ WriterEnds(DB, FALSE, <<>>)
            /\ UNCHANGED <<index, metadata, tieOrder, disk, stable>>
       ELSE /\ \E pick \in (IF NeedsUpgrade(index, writer.batch)
                            THEN TrainPicks(NormalizedBatch(writer.batch)) ELSE {{}}) :
                   index' = IndexAfterUpgrade(index, writer.batch, pick)
            /\ writer' = [writer EXCEPT !.pc = "upgraded"]
            /\ UNCHANGED <<metadata, tieOrder, last, issued, disk, stable, loop, snapshots>>
    /\ UNCHANGED <<reqvars, sessvars, reader>>

(* lines 227-244 *)
writer_metadata ==
    /\ writer.pc = "upgraded"
    /\ metadata' = metadata \o BatchMetadata(writer.batch)
    /\ writer' = [writer EXCEPT !.pc = "appended"]
    /\ UNCHANGED <<index, tieOrder, last, issued, disk, stable, reqvars, sessvars,
                   loop, reader, snapshots>>

(* lines 246-252 *)
writer_add ==
    /\ writer.pc = "appended"
    /\ IF TrainRaises(index, writer.batch) \/ DimMismatch(index, NormalizedBatch(writer.batch))
       THEN /\ WriterEnds(DB, FALSE, <<>>)
            /\ UNCHANGED <<index, metadata, tieOrder, disk, stable>>
       ELSE /\ \E pick \in (IF index.is_trained THEN {{}}
                            ELSE TrainPicks(NormalizedBatch(writer.batch))) :
                   index' = IndexAdd(IndexAfterTrain(index, writer.batch, pick),
                                     NormalizedBatch(writer.batch))
            /\ writer' = [writer EXCEPT !.pc = "added"]
            /\ UNCHANGED <<metadata, tieOrder, last, issued, disk, stable, loop, snapshots>>
    /\ UNCHANGED <<reqvars, sessvars, reader>>

(* lines 256-263 *)
writer_save ==
    /\ writer.pc = "added"
    /\ WriterEnds(DB, TRUE,
                  [i \in 1 .. Len(writer.batch) |->
                      Len(metadata) - Len(writer.batch) + i - 1])
    /\ disk' = SaveIndex(index, metadata)
    /\ stable' = {DB}
    /\ UNCHANGED <<index, metadata, tieOrder, reqvars, sessvars, reader>>

(* search_similar_faces is entered: line 282 *)
reader_begin(q, top_k, thr) ==
    /\ LoopFree(loop)
    /\ reader.pc = "idle"
    /\ loop' = "reader"
    /\ snapshots' = {IF writer.pc = "idle" THEN DB ELSE writer.before}
    /\ reader' = [pc |-> IF ntotal(index) = 0 THEN "done" ELSE "normalized",
                  q |-> q, top_k |-> top_k, thr |-> thr, raw |-> <<>>, result |-> <<>>]
    /\ UNCHANGED <<dbvars, reqvars, sessvars, writer>>

(* lines 286-294; an exception of index.search ends the call with [] *)
reader_search ==
    /\ reader.pc = "normalized"
    /\ IF \/ Min(reader.top_k, ntotal(index)) < 1
          \/ ~index.is_trained
          \/ DimMismatch(index, <<reader.q>>)
       THEN reader' = [reader EXCEPT !.pc = "done"]
       ELSE reader' = [reader EXCEPT
                          !.pc = "searched",
                          !.raw = IndexSearch(index, Normalize(reader.q),
                                              Min(reader.top_k, ntotal(index)), tieOrder)]
    /\ UNCHANGED <<dbvars, reqvars, sessvars, loop, writer, snapshots>>

(* lines 296-315 *)
reader_filter ==
    /\ reader.pc = "searched"
    /\ reader' = [reader EXCEPT !.pc = "done",
                                !.result = Results(metadata, reader.thr, reader.raw)]
    /\ UNCHANGED <<dbvars, reqvars, sessvars, loop, writer, snapshots>>

(* the answer is returned: the handler gives up the loop *)
reader_return ==
    /\ reader.pc = "done"
    /\ reader' = IdleReader
    /\ loop' = IF loop = "reader" THEN "free" ELSE loop
    /\ snapshots' = {}
    /\ UNCHANGED <<dbvars, reqvars, sessvars, writer>>

(***************************************************************************)
(* Specifications                                                          *)
(***************************************************************************)
(* no session call has been made, no handler is running *)
NoSessions ==
    /\ sessions = <<>>
    /\ now = 0
    /\ got = NoGot
    /\ handed = {}

NoTasks ==
    /\ loop = "free"
    /\ writer = IdleWriter
    /\ reader = IdleReader
    /\ snapshots = {}

(* the database FaceVectorDB.__init__ leaves in an empty persist_dir *)
FreshDB ==
    /\ index = EmptyDB.index
    /\ metadata = EmptyDB.metadata
    /\ last = NoCall
    /\ issued = {}
    /\ disk = NoFiles
    /\ stable = {EmptyDB}

(* a database that earlier calls filled and saved *)
FilledDB(db) ==
    /\ index = db.index
    /\ metadata = db.metadata
    /\ last = NoCall
    /\ issued = 0 .. Len(db.metadata) - 1
    /\ disk = SaveIndex(db.index, db.metadata)
    /\ stable = {db}

(* Spec: a fresh database and every call of FaceVectorDB, in any order *)
Init ==
    /\ FreshDB
    /\ tieOrder \in TieOrders
    /\ NoRequest
    /\ NoSessions
    /\ NoTasks

Next ==
    \/ \E f \in Faces : add_face(f)
    \/ \E batch \in Batches : add_faces_batch(batch)
    \/ \E p \in Photos : delete_by_photo(p)
    \/ reset

Spec == Init /\ [][Next]_vars

(* InsertSpec: insertions of embeddings of the right and of a wrong length *)
InsertFaces == {FaceA} \cup BadFaces

InsertBatches == UNION {[1 .. n -> {FaceA, FaceB}] : n \in 1 .. MaxBatch} \cup BadBatches

InsertNext ==
    \/ \E f \in InsertFaces : add_face(f)
    \/ \E batch \in InsertBatches : add_faces_batch(batch)
    \/ reset

InsertSpec == Init /\ [][InsertNext]_vars

(* PersistSpec: the calls that save, a process that dies while it saves,   *)
(* and the start of the next process                                       *)
PersistFaces == {FaceA}

PersistBatches == UNION {[1 .. n -> {FaceA}] : n \in 1 .. MaxBatch}

PersistSmall == Len(metadata) < MaxPersisted /\ ntotal(index) < MaxPersisted

PersistNext ==
    \/ \E f \in PersistFaces : PersistSmall /\ add_face(f)
    \/ \E batch \in PersistBatches : PersistSmall /\ add_faces_batch(batch)
    \/ reset
    \/ \E point \in CrashPoints :
           PersistSmall /\ crash_in_save(PersistFaces, PersistBatches, point)
    \/ load

PersistInit ==
    /\ FreshDB
    /\ tieOrder = "asc"
    /\ NoRequest
    /\ NoSessions
    /\ NoTasks

PersistSpec == PersistInit /\ [][PersistNext]_vars

(* SearchSpec: staged searches over a database that earlier calls filled.  *)
(* LoadedDBs are flat databases filled by add_face alone (one that never   *)
(* upgrades), UpgradedDBs are databases whose last add_faces_batch         *)
(* upgraded the index.                                                     *)
RECURSIVE AddFaceTimes(_, _, _)
AddFaceTimes(db, f, n) == IF n = 0 THEN db ELSE AddFaceTimes(AddFace(db, f), f, n - 1)

LoadedDBs ==
    {AddFaceTimes(AddFaceTimes(AddFaceTimes(AddFaceTimes(EmptyDB,
         FaceA, a), FaceB, b), FaceC, c), FaceD, d) :
     a \in 0 .. MaxLoaded, b \in 0 .. 2, c \in 0 .. 1, d \in 0 .. 1}

UpgradeBatches == UNION {[1 .. n -> {FaceA, FaceB}] : n \in nlist .. MaxBatch}

UpgradedDBs ==
    UNION {UNION {{AddFacesBatch(AddFaceTimes(EmptyDB, FaceA, a), batch, pick) :
                      pick \in TrainPicks(NormalizedBatch(batch))} :
                  batch \in {b \in UpgradeBatches :
                      NeedsUpgrade(AddFaceTimes(EmptyDB, FaceA, a).index, b)}} :
           a \in 1 .. IvfThreshold}

(* DriftSpec: a process starts on the files an earlier process left, which *)
(* ran with the same config.EMBEDDING_DIM or with another one (the length  *)
(* of FaceLong's embedding), and filled its database with add_face         *)
DriftedIndex ==
    [kind |-> "Flat", d |-> Len(FaceLong.embedding), is_trained |-> TRUE,
     centroids |-> <<>>, vecs |-> <<>>]

RECURSIVE Repeated(_, _)
Repeated(x, n) == IF n = 0 THEN <<>> ELSE Append(Repeated(x, n - 1), x)

DriftedDB(n) ==
    [index |-> IndexAdd(DriftedIndex, Repeated(Normalize(FaceLong.embedding), n)),
     metadata |-> Repeated(FaceMetadata(FaceLong), n)]

PersistedDBs ==
    {DriftedDB(n) : n \in 0 .. MaxFaces}
    \cup {AddFaceTimes(EmptyDB, FaceA, n) : n \in 0 .. MaxFaces}

DriftInit ==
    /\ index = IndexFlatIP
    /\ metadata = <<>>
    /\ last = NoCall
    /\ issued = {}
    /\ \E db \in PersistedDBs :
          /\ disk = SaveIndex(db.index, db.metadata)
          /\ stable = {db}
    /\ tieOrder \in TieOrders
    /\ pc = "down"
    /\ query = <<>>
    /\ max_results = 0
    /\ primary_threshold = 0
    /\ matches_stage1 = <<>>
    /\ all_matches = <<>>
    /\ nsearch = 0
    /\ stage2_threshold = None
    /\ photo_matches = <<>>
    /\ NoSessions
    /\ NoTasks

DriftNext ==
    \/ load
    \/ \E f \in {FaceA, FaceB} : add_face(f)
    \/ \E batch \in UpgradeBatches \cup {<<FaceA>>} : add_faces_batch(batch)

DriftSpec == DriftInit /\ [][DriftNext]_vars

SearchInit ==
    /\ \E db \in LoadedDBs \cup UpgradedDBs : FilledDB(db)
    /\ tieOrder \in TieOrders
    /\ NoRequest
    /\ NoSessions
    /\ NoTasks

SearchNext ==
    \/ \E q \in Queries, k \in TopKs, t \in Thresholds : Primary(q, k, t)
    \/ Expand
    \/ Fallback
    \/ Merge
    \/ Group
    \/ Return

SearchSpec == SearchInit /\ [][SearchNext]_vars

(* search_photos_by_selfie has no await and no loop between its stages:    *)
(* once stage 1 has run, the request runs on to the sort of line 180       *)
FairSearchSpec ==
    SearchSpec /\ WF_vars(Expand) /\ WF_vars(Fallback) /\ WF_vars(Merge)

(* GroupSpec: _group_matches_by_photo on the lists of matches line 180     *)
(* can leave: in descending order of similarity                            *)
GroupSimilarities == {-200, 500, 700, 900}

GroupHit(i, photo, similarity) ==
    [id |-> i - 1, photo_path |-> photo, bbox |-> <<0, 0, 10, 10>>,
     similarity |-> similarity, is_expanded |-> FALSE]

GroupInputs ==
    UNION {{[i \in 1 .. n |-> GroupHit(i, ps[i], ss[i])] :
               ps \in [1 .. n -> Photos],
               ss \in {t \in [1 .. n -> GroupSimilarities] :
                          \A i \in 1 .. n - 1 : t[i] >= t[i + 1]}} :
           n \in 1 .. MaxHits}

GroupInit ==
    /\ FreshDB
    /\ tieOrder = "asc"
    /\ pc = "MERGED"
    /\ query = <<1, 0>>
    /\ max_results = MAX_RESULTS
    /\ primary_threshold = -Unit
    /\ matches_stage1 = <<>>
    /\ all_matches \in GroupInputs
    /\ nsearch = 2
    /\ stage2_threshold = Some(fallback_threshold)
    /\ photo_matches = <<>>
    /\ NoSessions
    /\ NoTasks

GroupNext == Group

GroupSpec == GroupInit /\ [][GroupNext]_vars

(* SessionSpec: the session calls and the clock *)
SessionInit ==
    /\ FreshDB
    /\ tieOrder = "asc"
    /\ NoRequest
    /\ NoSessions
    /\ NoTasks

SessionNext ==
    \/ \E e \in Queries, name \in SelfieNames : create_session(e, name)
    \/ \E id \in SessionIds : get_session(id)
    \/ \E minutes \in TickSteps : Tick(minutes)

SessionSpec == SessionInit /\ [][SessionNext]_vars

(* QuerySpec: sessions, the queries made in them, and the clock *)
QueryTicks == {17}

QueryNext ==
    \/ \E name \in SelfieNames : create_session(<<0, 2>>, name)
    \/ \E id \in SessionIds, text \in QueryTexts, locations \in LocationDBs :
           search_photos(id, text, locations)
    \/ \E minutes \in QueryTicks : Tick(minutes)

(* the database holds FaceA of p1.jpg, or FaceA and FaceB of p2.jpg *)
QueryDBs == {AddFace(EmptyDB, FaceA), AddFace(AddFace(EmptyDB, FaceA), FaceB)}

QueryInit ==
    /\ \E db \in QueryDBs : FilledDB(db)
    /\ tieOrder = "asc"
    /\ NoRequest
    /\ NoSessions
    /\ NoTasks

QuerySpec == QueryInit /\ [][QueryNext]_vars

(* ConcSpec: an upload and a search on the event loop, over a database     *)
(* that holds up to two faces                                              *)
ConcDBs == {EmptyDB, AddFace(EmptyDB, FaceA), AddFace(AddFace(EmptyDB, FaceA), FaceB)}

ConcInit ==
    /\ \E db \in ConcDBs : FilledDB(db)
    /\ tieOrder \in TieOrders
    /\ NoRequest
    /\ NoSessions
    /\ NoTasks

ConcNext ==
    \/ \E batch \in Batches : writer_begin(batch)
    \/ writer_upgrade
    \/ writer_metadata
    \/ writer_add
    \/ writer_save
    \/ \E q \in Queries, k \in ReaderTopKs, t \in ReaderThresholds : reader_begin(q, k, t)
    \/ reader_search
    \/ reader_filter
    \/ reader_return

ConcSpec == ConcInit /\ [][ConcNext]_vars

(***************************************************************************)
(* Properties                                                              *)
(***************************************************************************)
(* the ids a search of this index can return: the labels the index holds   *)
(* that name a metadata record                                             *)
SearchableIds(ix, md) == {i \in 0 .. Len(md) - 1 : i < ntotal(ix)}

(* how often the id occurs in a list of matches *)
Occurrences(ms, id) == Cardinality({i \in 1 .. Len(ms) : ms[i].id = id})

(* the answer of the second search of the request in progress *)
Stage2Answer ==
    IF stage2_threshold = None THEN <<>>
    ELSE search_similar_faces(index, metadata, query, max_results,
                              stage2_threshold[1], tieOrder)

Descending(ms) ==
    \A i \in 1 .. Len(ms) - 1 : ms[i].similarity >= ms[i + 1].similarity

(* C1: an add_faces_batch that upgrades the index from flat to IVF keeps   *)
(* every id searchable that was searchable before it.                      *)
C1_UpgradeKeepsIds ==
    [][(index.kind = "Flat" /\ index'.kind = "IVF")
         => SearchableIds(index, metadata) \subseteq SearchableIds(index', metadata')]_vars

(* C2: after every completed mutation the index holds as many vectors as   *)
(* the store holds records.                                                *)
C2_IndexCountIsStoreCount == Idle => ntotal(index) = Len(metadata)

(* C3: a search with threshold 0 and k >= count returns every id that was  *)
(* handed out exactly once.                                                *)
C3_ReadAfterWrite ==
    \A q \in Queries :
        \A id \in 0 .. Len(metadata) - 1 :
            Occurrences(search_similar_faces(index, metadata, q, Len(metadata), 0,
                                             tieOrder), id) = 1

(* C4: once delete_by_photo(p) has returned, no search returns a hit whose *)
(* photo is p.                                                             *)
C4_DeletedPhotoNotReturned ==
    last.op = "delete_by_photo" =>
        \A q \in Queries, k \in 1 .. MaxFaces, thr \in {0, 300, 550} :
            LET hits == search_similar_faces(index, metadata, q, k, thr, tieOrder)
            IN \A i \in 1 .. Len(hits) : hits[i].photo_path # last.photo

(* C5: whatever second stage ran, every hit of stage 1 is in the merged    *)
(* list, which is never shorter than the answer of stage 1.                *)
C5_PrimaryKept ==
    pc \in {"PRIMARY", "EXPAND", "FALLBACK", "MERGED"} =>
        /\ Len(all_matches) >= Len(matches_stage1)
        /\ \A i \in 1 .. Len(matches_stage1) :
               \E j \in 1 .. Len(all_matches) : all_matches[j] = matches_stage1[i]

C5_Witness ==
    /\ pc = "MERGED"
    /\ nsearch = 2
    /\ Len(matches_stage1) >= 2
    /\ Len(all_matches) > Len(matches_stage1)

(* C6: the merged list holds each face id at most once.                    *)
C6_NoDuplicateIds ==
    pc = "MERGED" => \A id \in IdsOf(all_matches) : Occurrences(all_matches, id) = 1

(* C7: when stage 1 finds nothing the fallback search runs at the fallback *)
(* threshold and every hit it adds is marked is_expanded.                  *)
C7_FallbackMarked ==
    /\ pc \in {"EXPAND", "FALLBACK", "MERGED"} /\ matches_stage1 = <<>> =>
        /\ nsearch = 2
        /\ stage2_threshold = Some(300)
    /\ pc = "FALLBACK" =>
        \A i \in 1 .. Len(all_matches) : all_matches[i].is_expanded

(* C8: PRIMARY -> EXPAND | FALLBACK -> MERGED, the second stage chosen by  *)
(* the number of stage-1 hits alone (none from 8 on, EXPAND for 1 to 7,    *)
(* FALLBACK for 0), at most two searches, and MERGED is always reached.    *)
C8_Stages ==
    /\ nsearch <= 2
    /\ pc = "PRIMARY" => nsearch = 1
    /\ pc = "EXPAND" => nsearch = 2 /\ Len(matches_stage1) \in 1 .. 7
    /\ pc = "FALLBACK" => nsearch = 2 /\ Len(matches_stage1) = 0
    /\ pc = "MERGED" => nsearch = IF Len(matches_stage1) >= 8 THEN 1 ELSE 2

C8_Step ==
    /\ pc \in {"PRIMARY", "EXPAND", "FALLBACK"} => matches_stage1' = matches_stage1
    /\ pc' # pc =>
        \/ pc = "idle" /\ pc' = "PRIMARY"
        \/ pc = "PRIMARY" /\ pc' = "EXPAND" /\ Len(matches_stage1) \in 1 .. 7
        \/ pc = "PRIMARY" /\ pc' = "FALLBACK" /\ Len(matches_stage1) = 0
        \/ pc = "PRIMARY" /\ pc' = "MERGED" /\ Len(matches_stage1) >= 8
        \/ pc \in {"EXPAND", "FALLBACK"} /\ pc' = "MERGED"
        \/ pc = "MERGED" /\ pc' \in {"GROUPED", "idle"}
        \/ pc = "GROUPED" /\ pc' = "idle"

C8_StageMachine ==
    /\ []C8_Stages
    /\ [][C8_Step]_vars
    /\ [](pc = "PRIMARY" => <>(pc = "MERGED"))

C8_Witness == pc = "MERGED" /\ nsearch = 1 /\ Len(matches_stage1) >= 8

(* C9: EXPAND searches at max(0.42, primary_threshold - 0.10), and in the  *)
(* list it leaves a hit is marked is_expanded exactly when stage 1 did not *)
(* return its id.                                                          *)
C9_ExpandThresholdAndMarks ==
    (pc = "EXPAND" \/ (pc = "MERGED" /\ nsearch = 2 /\ matches_stage1 # <<>>)) =>
        /\ stage2_threshold = Some(Max(420, primary_threshold - 100))
        /\ \A i \in 1 .. Len(all_matches) :
               all_matches[i].is_expanded <=> all_matches[i].id \notin IdsOf(matches_stage1)
        /\ \A answer \in {Stage2Answer} :
               /\ \A j \in 1 .. Len(answer) : answer[j].id \in IdsOf(all_matches)
               /\ \A i \in 1 .. Len(all_matches) :
                      all_matches[i].is_expanded =>
                          /\ all_matches[i].similarity >= Max(420, primary_threshold - 100)
                          /\ \E j \in 1 .. Len(answer) :
                                 /\ answer[j].id = all_matches[i].id
                                 /\ answer[j].similarity = all_matches[i].similarity

C9_Witness ==
    /\ pc = "EXPAND"
    /\ primary_threshold = 550
    /\ \E i \in 1 .. Len(all_matches) : all_matches[i].is_expanded
    /\ \E i \in 1 .. Len(all_matches) : ~all_matches[i].is_expanded

(* C10: the merged list is the union of the stage answers with one entry   *)
(* per id, an id of both stages keeping the similarity of stage 1, in      *)
(* descending order of similarity.                                         *)
C10_MergedIsSortedUnion ==
    pc = "MERGED" =>
        /\ \A answer \in {Stage2Answer} :
               IdsOf(all_matches) = IdsOf(matches_stage1) \cup IdsOf(answer)
        /\ \A id \in IdsOf(all_matches) : Occurrences(all_matches, id) = 1
        /\ \A i \in 1 .. Len(all_matches), j \in 1 .. Len(matches_stage1) :
               all_matches[i].id = matches_stage1[j].id
                   => all_matches[i].similarity = matches_stage1[j].similarity
        /\ Descending(all_matches)

(* every face the model hands to the database *)
AllFaces == {FaceX, FaceA, FaceB, FaceC, FaceD, FaceShort, FaceLong}

(* the embedding a metadata record was stored with: the sample faces have  *)
(* pairwise different bounding boxes                                       *)
EmbeddingOf(m) == (CHOOSE f \in AllFaces : f.bbox = m.bbox).embedding

(* cosine similarity of a query and an embedding *)
Cosine(q, e) == InnerProduct(Normalize(q), Normalize(e))

(* the ids of the records whose similarity to q is at least thr *)
Qualifying(md, q, thr) ==
    {i \in 0 .. Len(md) - 1 :
        /\ Len(EmbeddingOf(md[i + 1])) = embedding_dim
        /\ Cosine(q, EmbeddingOf(md[i + 1])) >= thr}

(* C11: search(q, k, thr) returns the min(k, n) most similar of the n      *)
(* records whose similarity to q is >= thr: no entry below thr, no more    *)
(* than k entries, fewer than k only when fewer qualify, each with its     *)
(* similarity to q, and the empty sequence when the index is empty.        *)
C11_TopKAboveThreshold ==
    \A q \in Queries, k \in 1 .. MaxFaces, thr \in {0, 500, 900} :
        \A hits \in {search_similar_faces(index, metadata, q, k, thr, tieOrder)} :
            /\ ntotal(index) = 0 => hits = <<>>
            /\ Len(hits) = Min(k, Cardinality(Qualifying(metadata, q, thr)))
            /\ \A i \in 1 .. Len(hits) :
                   /\ hits[i].id \in Qualifying(metadata, q, thr)
                   /\ hits[i].similarity = Cosine(q, EmbeddingOf(metadata[hits[i].id + 1]))
            /\ \A j \in Qualifying(metadata, q, thr) \ IdsOf(hits) :
                   \A i \in 1 .. Len(hits) :
                       Cosine(q, EmbeddingOf(metadata[j + 1])) <= hits[i].similarity

(* C12: the answer of a search is in descending order of similarity, and   *)
(* hits of equal similarity are in ascending order of id.                  *)
C12_DescendingThenId ==
    \A q \in Queries, k \in 1 .. MaxFaces :
        \A hits \in {search_similar_faces(index, metadata, q, k, 0, tieOrder)} :
            \A i \in 1 .. Len(hits) - 1 :
                \/ hits[i].similarity > hits[i + 1].similarity
                \/ hits[i].similarity = hits[i + 1].similarity /\ hits[i].id < hits[i + 1].id

(* the matches of a photo, in the order of the list *)
MatchesOf(ms, p) == SelectSeq(ms, LAMBDA m : m.photo_path = p)

MaxOf(S) == CHOOSE x \in S : \A y \in S : x >= y

(* C13: the grouping puts every match in exactly one group, the group of   *)
(* its photo, and a group's max_similarity, avg_similarity and face_count  *)
(* are the maximum, the mean and the number of its matches' similarities.  *)
C13_GroupsAggregate ==
    pc = "GROUPED" =>
        /\ \A i \in 1 .. Len(all_matches) :
               Cardinality({g \in 1 .. Len(photo_matches) :
                   photo_matches[g].photo_path = all_matches[i].photo_path}) = 1
        /\ \A g \in 1 .. Len(photo_matches) :
               \A own \in {MatchesOf(all_matches, photo_matches[g].photo_path)} :
                   /\ Len(own) > 0
                   /\ photo_matches[g].faces_found = [i \in 1 .. Len(own) |-> FaceInfo(own[i])]
                   /\ photo_matches[g].face_count = Len(own)
                   /\ photo_matches[g].max_similarity
                          = MaxOf({own[i].similarity : i \in 1 .. Len(own)})
                   /\ photo_matches[g].avg_similarity
                          = SumSimilarities(own, Len(own)) \div Len(own)

(* the order of the photo identifiers *)
PhotoBefore(a, b) == a = "p1.jpg" /\ b = "p2.jpg"

(* C14: the groups are in descending order of max_similarity, groups of    *)
(* equal max_similarity in descending order of avg_similarity, and groups  *)
(* equal in both in ascending order of the photo identifier.               *)
C14_GroupOrder ==
    pc = "GROUPED" =>
        \A g \in 1 .. Len(photo_matches) - 1 :
            \/ photo_matches[g].max_similarity > photo_matches[g + 1].max_similarity
            \/ /\ photo_matches[g].max_similarity = photo_matches[g + 1].max_similarity
               /\ photo_matches[g].avg_similarity > photo_matches[g + 1].avg_similarity
            \/ /\ photo_matches[g].max_similarity = photo_matches[g + 1].max_similarity
               /\ photo_matches[g].avg_similarity = photo_matches[g + 1].avg_similarity
               /\ PhotoBefore(photo_matches[g].photo_path, photo_matches[g + 1].photo_path)

(* a step of get_session: the clock stands and no session is created *)
GetSessionStep == got'.op = "get_session" /\ now' = now /\ handed' = handed

IdsHanded == {h.id : h \in handed}

(* C15: a get on a session older than the timeout (now - created_at > 30   *)
(* minutes) deletes it and reports expiry (None); a get on a session that  *)
(* is gone reports expiry too and leaves it gone; a get at an age <= the   *)
(* timeout returns the session and keeps it.                               *)
C15_GetStep ==
    GetSessionStep =>
        IF got'.id \in DOMAIN sessions
        THEN IF now - sessions[got'.id].created_at > 30
             THEN got'.session = None /\ got'.id \notin DOMAIN sessions'
             ELSE got'.session = Some(sessions[got'.id]) /\ sessions' = sessions
        ELSE got'.session = None /\ got'.id \notin DOMAIN sessions'

C15_StaysExpired ==
    \A id \in IdsHanded : id \notin DOMAIN sessions => id \notin DOMAIN sessions'

C15_LazyExpiry == [][C15_GetStep /\ C15_StaysExpired]_vars

C15_Witness ==
    /\ got.op = "get_session"
    /\ got.session = None
    /\ got.id \in IdsHanded
    /\ got.id \notin DOMAIN sessions

(* C16: create_session returns an id that no earlier create_session        *)
(* returned, and until its timeout has passed a get on that id returns a   *)
(* session that holds the embedding the id was created with, whatever was  *)
(* done with other sessions in between.                                    *)
C16_Holds ==
    \A h \in handed :
        h.id \in DOMAIN sessions => sessions[h.id].face_embedding = h.face_embedding

C16_Step ==
    /\ (got'.op = "create_session" /\ handed' # handed) => got'.id \notin IdsHanded
    /\ GetSessionStep =>
           \A h \in handed :
               (h.id = got'.id /\ now - h.at <= 30) =>
                   /\ got'.session # None
                   /\ got'.session[1].face_embedding = h.face_embedding

C16_FreshIdKeepsEmbedding == []C16_Holds /\ [][C16_Step]_vars

C16_Witness ==
    /\ got.op = "get_session"
    /\ got.session # None
    /\ Cardinality(handed) = 2
    /\ \E a, b \in handed : a.face_embedding # b.face_embedding
    /\ \E h \in handed : h.id \notin DOMAIN sessions

Insertions == {"add_face", "add_faces_batch"}

(* C17: every id an insertion returns is a positive integer greater than   *)
(* every id returned before, through any sequence of add_face,             *)
(* add_faces_batch, delete_by_photo and reset.                             *)
C17_IdsIncrease ==
    [][last'.op \in Insertions =>
          \A i \in 1 .. Len(last'.ids) :
              /\ last'.ids[i] > 0
              /\ \A old \in issued : last'.ids[i] > old
              /\ \A j \in 1 .. i - 1 : last'.ids[i] > last'.ids[j]]_vars

(* C18: an insertion given an embedding whose length is not the index's    *)
(* dimension raises: it adds nothing to the index, returns no id, and the  *)
(* index never holds a vector of another length than its dimension.        *)
C18_StoredLengths ==
    \A i \in 1 .. ntotal(index) : Len(index.vecs[i]) = embedding_dim

C18_Step ==
    (last'.op \in Insertions /\ ~(last'.dims \subseteq {embedding_dim})) =>
        /\ ~last'.ok
        /\ last'.ids = <<>>
        /\ index' = index
        /\ issued' = issued

C18_WrongLengthRejected == []C18_StoredLengths /\ [][C18_Step]_vars

C18_Witness ==
    /\ last.op = "add_faces_batch"
    /\ last.dims = {3}
    /\ ~last.ok
    /\ ntotal(index) > 0

(* C19: a search that shares the event loop with an upload returns what a  *)
(* search of the database as it was before the upload, or as it is after   *)
(* it, returns: never an answer computed from a state in between.          *)
C19_NoTornRead ==
    reader.pc = "done" =>
        \E db \in snapshots :
            reader.result = search_similar_faces(db.index, db.metadata, reader.q,
                                                 reader.top_k, reader.thr, tieOrder)

C19_Witness ==
    /\ reader.pc = "done"
    /\ reader.result # <<>>
    /\ last.op = "add_faces_batch"
    /\ last.ok
    /\ index.kind = "IVF"

(* C20: the database a process loads is the one the last completed save   *)
(* wrote, or the one the interrupted save was writing.                     *)
C20_LoadSeesOneSave ==
    (pc = "idle" /\ last.op = "load") => [index |-> index, metadata |-> metadata] \in stable

(* C21: when the index file holds an index of another dimension than the   *)
(* configured one, the load discards it: the database it leaves has an     *)
(* empty index of the configured dimension, as many vectors as records,    *)
(* answers no search from the persisted vectors, and accepts an insertion. *)
C21_MismatchRebuilds ==
    (pc = "idle" /\ last.op = "load" /\ last.dims \notin {{}, {embedding_dim}}) =>
        /\ index.d = embedding_dim
        /\ index.vecs = <<>>
        /\ ntotal(index) = Len(metadata)
        /\ \A q \in Queries :
               search_similar_faces(index, metadata, q, MAX_RESULTS, 0, tieOrder) = <<>>
        /\ \A f \in {FaceA, FaceB} : ~AddFaceRaises(DB, f)

(* C22: from whatever state reset() is called, right after it the count is *)
(* 0, the index is an empty flat index, no record is left, and every       *)
(* search returns the empty sequence.                                      *)
C22_ResetClears ==
    last.op = "reset" =>
        /\ get_count(index) = 0
        /\ metadata = <<>>
        /\ index = IndexFlatIP
        /\ \A q \in Queries, k \in {1, MAX_RESULTS}, thr \in {-Unit, 0, SIMILARITY_THRESHOLD} :
               search_similar_faces(index, metadata, q, k, thr, tieOrder) = <<>>

(* a reset of a database that held more faces than the IVF threshold *)
C22_Witness == last.op = "reset" /\ IvfThreshold \in issued

(* the records of the photo *)
RecordsOf(md, p) == {i \in 1 .. Len(md) : md[i].photo_path = p}

(* C23: delete_by_photo(p) returns the number of records it removes: the   *)
(* number returned is the number of the records of p, the count reported   *)
(* after it is the count before it less that number, and the other records *)
(* keep their places.                                                      *)
C23_DeleteReturnsRemoved ==
    [][last'.op = "delete_by_photo" =>
          /\ last'.count = Cardinality(RecordsOf(metadata, last'.photo))
          /\ get_count(index') = get_count(index) - last'.count
          /\ \A i \in 1 .. Len(metadata) :
                 metadata[i].photo_path # last'.photo =>
                     i <= Len(metadata') /\ metadata'[i] = metadata[i]]_vars

(* C24: the index starts flat; an insertion that returns and takes the     *)
(* count from at most the threshold to more than the threshold leaves an   *)
(* IVF index, and a flat index stays flat while the count is at most the   *)
(* threshold.                                                              *)
C24_Step ==
    (last'.op \in Insertions /\ last'.ok) =>
        /\ (get_count(index) <= IvfThreshold /\ get_count(index') > IvfThreshold)
               => index'.kind = "IVF"
        /\ (index.kind = "Flat" /\ get_count(index') <= IvfThreshold)
               => index'.kind = "Flat"

C24_KindFollowsCount == index.kind = "Flat" /\ [][C24_Step]_vars

(* the i-th match of the request came from a stage with a relaxed          *)
(* threshold: EXPAND marks its matches, FALLBACK is the stage of every     *)
(* match when stage 1 found none                                           *)
FromRelaxedStage(i) == all_matches[i].is_expanded \/ matches_stage1 = <<>>

(* C25: every group the search returns has a flag expanded, which is true  *)
(* exactly when one of the group's matches came from EXPAND or FALLBACK.   *)
C25_GroupExpandedFlag ==
    pc = "GROUPED" =>
        \A g \in 1 .. Len(photo_matches) :
            /\ "expanded" \in DOMAIN photo_matches[g]
            /\ photo_matches[g].expanded <=>
                   \E i \in 1 .. Len(all_matches) :
                       /\ all_matches[i].photo_path = photo_matches[g].photo_path
                       /\ FromRelaxedStage(i)

(* the value of an argument the caller may leave out *)
Supplied(x, default) == IF x = None THEN default ELSE x[1]

(* C26: stage 1 searches with the top_k and the threshold the caller gave, *)
(* 0 included, and with the configured value for one the caller left out.  *)
C26_CallerValuesUsed ==
    [][\A q \in Queries, k \in TopKs, t \in Thresholds :
          Primary(q, k, t) =>
              /\ max_results' = Supplied(k, MAX_RESULTS)
              /\ primary_threshold' = Supplied(t, SIMILARITY_THRESHOLD)
              /\ matches_stage1' =
                     search_similar_faces(index, metadata, q, Supplied(k, MAX_RESULTS),
                                          Supplied(t, SIMILARITY_THRESHOLD), tieOrder)]_vars

(* C30 as stated: for every primary threshold the threshold of EXPAND is   *)
(* at most the primary threshold.                                          *)
C30_ExpandNeverStricter ==
    pc = "EXPAND" => stage2_threshold[1] <= primary_threshold

(* C30, amended: for a primary threshold of at least the floor 0.42 the    *)
(* threshold of EXPAND is at most the primary threshold; for a primary     *)
(* threshold below the floor EXPAND searches at the floor, which is        *)
(* stricter than stage 1.                                                  *)
C30_ExpandNotStricterFromFloor ==
    pc = "EXPAND" =>
        /\ primary_threshold >= 420 => stage2_threshold[1] <= primary_threshold
        /\ primary_threshold < 420 => stage2_threshold[1] = 420

C30_Witness ==
    /\ pc = "EXPAND"
    /\ primary_threshold >= 420
    /\ stage2_threshold[1] < primary_threshold
    /\ Len(all_matches) > Len(matches_stage1)

(* C28: every hit of a search has the id its vector was inserted under,    *)
(* which is the place of its record in the metadata, and the photo and the *)
(* bounding box that were inserted with that vector: the vector the index  *)
(* holds under the hit's id is the embedding of the face of the hit's      *)
(* record.  This holds after any insertions, an upgrade to IVF included.   *)
C28_HitsCarryTheirRecord ==
    \A q \in Queries :
        \A hits \in {search_similar_faces(index, metadata, q, MaxFaces, 0, tieOrder)} :
            \A i \in 1 .. Len(hits) :
                /\ hits[i].id \in 0 .. Len(metadata) - 1
                /\ hits[i].id < ntotal(index)
                /\ hits[i].photo_path = metadata[hits[i].id + 1].photo_path
                /\ hits[i].bbox = metadata[hits[i].id + 1].bbox
                /\ index.vecs[hits[i].id + 1]
                       = Normalize(EmbeddingOf(metadata[hits[i].id + 1]))

(* C29: an insertion that raises leaves the index and the metadata as they *)
(* were, so the next id and the two counts are what they were.             *)
C29_FailedInsertChangesNothing ==
    [][(last'.op \in Insertions /\ ~last'.ok) =>
          /\ index' = index
          /\ metadata' = metadata
          /\ ntotal(index') - Len(metadata') = ntotal(index) - Len(metadata)]_vars

(* a step of search_photos: the clock stands and no session is created *)
SearchPhotosStep == got'.op = "search_photos" /\ now' = now /\ handed' = handed

(* C27: a query on a live session adds exactly one entry, the query's, at  *)
(* the end of that session's chat_history and changes nothing else; a      *)
(* query on a session that has expired or was never created adds nothing   *)
(* to any session and returns without an exception.                        *)
C27_Step ==
    SearchPhotosStep =>
        IF got'.id \in DOMAIN sessions /\ now - sessions[got'.id].created_at <= 30
        THEN /\ DOMAIN sessions' = DOMAIN sessions
             /\ \A id \in DOMAIN sessions \ {got'.id} : sessions'[id] = sessions[id]
             /\ \A old \in {sessions[got'.id].chat_history} :
                    /\ Len(sessions'[got'.id].chat_history) = Len(old) + 1
                    /\ SubSeq(sessions'[got'.id].chat_history, 1, Len(old)) = old
                    /\ sessions'[got'.id].chat_history[Len(old) + 1].user = got'.user_query
             /\ sessions'[got'.id].face_embedding = sessions[got'.id].face_embedding
             /\ sessions'[got'.id].created_at = sessions[got'.id].created_at
             /\ got'.session = Some(sessions'[got'.id])
        ELSE /\ got'.session = None
             /\ \A id \in DOMAIN sessions' : id \in DOMAIN sessions /\ sessions'[id] = sessions[id]

C27_OneEntryPerQuery == [][C27_Step]_vars

(* a query on an expired session was refused while another session holds   *)
(* two different queries                                                   *)
C27_Witness ==
    /\ got.op = "search_photos"
    /\ got.session = None
    /\ got.id \in IdsHanded
    /\ got.id \notin DOMAIN sessions
    /\ \E id \in DOMAIN sessions :
           /\ Len(sessions[id].chat_history) = 2
           /\ sessions[id].chat_history[1].user # sessions[id].chat_history[2].user

====
